---- MODULE Spec2Model ----
(***************************************************************************)
(* Model of the course recommender web application (src/app.py): the       *)
(* process-wide catalog COURSE_DATA, the Gemini model handle, the matching *)
(* function recommend_courses and the three Flask routes '/', '/download'  *)
(* and '/chat'.  Text is modelled as sequences of one-character strings so *)
(* that lower(), int() and the regular-expression search behind            *)
(* Series.str.contains are computed, not assumed.                          *)
(***************************************************************************)
EXTENDS Integers, Sequences, FiniteSets, TLC

(* Largest number of rows of courses.csv the model loads. *)
MaxCourses == 2

VARIABLES
    COURSE_DATA,  \* the DataFrame loaded at startup: a sequence of rows, row label = position
    model,        \* "loaded" or "None": the module-level Gemini model handle
    tieRank,      \* where this build's quicksort argsort leaves rows of equal key
    request,      \* the request handled last
    rc,           \* the invocation of recommend_courses made by that request, if any
    response,     \* the response that request received
    aiCalls       \* calls of model.generate_content made by that request

vars == <<COURSE_DATA, model, tieRank, request, rc, response, aiCalls>>

-----------------------------------------------------------------------------
(* Text *)

Digits == {"0", "2", "6"}

DigitVal(c) ==
    CASE c = "0" -> 0 [] c = "2" -> 2 [] c = "6" -> 6

(* str.lower() on one character of the model's alphabet *)
LowerChar(c) ==
    CASE c = "A" -> "a" [] c = "B" -> "b" [] c = "S" -> "s" [] OTHER -> c

lower(s) == [i \in 1..Len(s) |-> LowerChar(s[i])]

(* A form field that the request does not carry. *)
Absent == <<"<absent>">>

(* int(text): ValueError unless the text is a non-empty run of digits *)
IsNumeric(t) == Len(t) > 0 /\ \A i \in 1..Len(t) : t[i] \in Digits

RECURSIVE int(_)
int(t) ==
    IF Len(t) = 0 THEN 0
    ELSE 10 * int(SubSeq(t, 1, Len(t) - 1)) + DigitVal(t[Len(t)])

(* re.compile(pat, re.IGNORECASE): an opening parenthesis that is never   *)
(* closed is a pattern error (the alphabet has no closing parenthesis).   *)
re_compiles(pat) == \A i \in 1..Len(pat) : pat[i] # "("

(* One pattern character against one subject character under IGNORECASE: *)
(* '.' matches any character, every other character matches itself.     *)
re_char_matches(p, c) == p = "." \/ LowerChar(p) = LowerChar(c)

(* regex.search(text) is not None, for a pattern that compiled *)
re_search(pat, text) ==
    \E start \in 0..(Len(text) - Len(pat)) :
        \A j \in 1..Len(pat) : re_char_matches(pat[j], text[start + j])

-----------------------------------------------------------------------------
(* The catalog *)

Sci == <<"S", "c", "i">>
Art == <<"A", "r", "t">>

(* The rows courses.csv is drawn from: (faculty, min_jamb, required_subjects) *)
CourseRecords ==
    {[faculty |-> Sci, min_jamb |-> 280, required_subjects |-> <<"a", "B">>],
     [faculty |-> Art, min_jamb |-> 280, required_subjects |-> <<"c", ".">>],
     [faculty |-> Art, min_jamb |-> 250, required_subjects |-> <<"a", "B">>],
     [faculty |-> Sci, min_jamb |-> 250, required_subjects |-> <<"c", ".">>]}

Catalogs == UNION {[1..n -> CourseRecords] : n \in 0..MaxCourses}

(* Orders in which an unstable sort may leave rows whose keys are equal. *)
TieOrders ==
    {f \in [1..MaxCourses -> 1..MaxCourses] : \A i, j \in 1..MaxCourses : f[i] = f[j] => i = j}

(* DataFrame.empty *)
empty(df) == Len(df) = 0

(* df[mask]: the rows whose label is in mask, in the frame's order *)
RECURSIVE select(_, _)
select(rows, mask) ==
    IF Len(rows) = 0 THEN <<>>
    ELSE IF Head(rows) \in mask THEN <<Head(rows)>> \o select(Tail(rows), mask)
         ELSE select(Tail(rows), mask)

(* The row labels of a frame built from the catalog *)
labels(df) == [i \in 1..Len(df) |-> i]

RowSet(rows) == {rows[i] : i \in 1..Len(rows)}

(* The catalog after the filters of recommend_courses ran with the given  *)
(* combined mask: they run on df = COURSE_DATA.copy(), so the catalog     *)
(* keeps every row.                                                       *)
catalog_inplace(mask) ==
    LET kept == select(labels(COURSE_DATA), mask)
    IN  [i \in 1..Len(kept) |-> COURSE_DATA[kept[i]]]

catalog_after_filter(mask) == COURSE_DATA

(* sort_values(by='min_jamb', ascending=False), default kind='quicksort': *)
(* descending by cutoff; rows of equal cutoff land where the build's      *)
(* unstable argsort leaves them (tieRank).                                *)
sorts_before(a, b) ==
    \/ COURSE_DATA[a].min_jamb > COURSE_DATA[b].min_jamb
    \/ /\ COURSE_DATA[a].min_jamb = COURSE_DATA[b].min_jamb
       /\ tieRank[a] < tieRank[b]

sort_values_ascending(rows) ==
    LET S == RowSet(rows)
    IN  [i \in 1..Len(rows) |->
            CHOOSE a \in S : Cardinality({b \in S : sorts_before(a, b)}) = i - 1]

sort_values(rows) ==
    LET S == RowSet(rows)
    IN  [i \in 1..Len(rows) |->
            CHOOSE a \in S : Cardinality({b \in S : sorts_before(b, a)}) = i - 1]

(* df['min_jamb'] <= jamb_score *)
mask_score(jamb_score) ==
    {i \in 1..Len(COURSE_DATA) : COURSE_DATA[i].min_jamb <= jamb_score}

(* df['required_subjects'].astype(str).str.contains(preferred_subject,    *)
(* case=False, na=False): regex=True is the default, so the subject is a  *)
(* regular expression.                                                    *)
mask_subject(preferred_subject) ==
    {i \in 1..Len(COURSE_DATA) : re_search(preferred_subject, COURSE_DATA[i].required_subjects)}

(* df['faculty'].astype(str).str.lower() == preferred_faculty.lower() *)
mask_faculty(preferred_faculty) ==
    {i \in 1..Len(COURSE_DATA) : lower(COURSE_DATA[i].faculty) = lower(preferred_faculty)}

all == <<"a", "l", "l">>

NoCall ==
    [called |-> FALSE, jamb_score |-> 0, preferred_subject |-> <<>>, preferred_faculty |-> <<>>,
     outcome |-> "none", courses |-> <<>>, status |-> "none", catalog |-> <<>>]

(* recommend_courses(jamb_score, preferred_subject, preferred_faculty):   *)
(* what it returns or that it raised, and the catalog it leaves behind.   *)
recommend_courses(jamb_score, preferred_subject, preferred_faculty) ==
    LET call == [NoCall EXCEPT !.called = TRUE, !.jamb_score = jamb_score,
                               !.preferred_subject = preferred_subject,
                               !.preferred_faculty = preferred_faculty,
                               !.catalog = COURSE_DATA]
    IN
    IF empty(COURSE_DATA)
    THEN [call EXCEPT !.outcome = "return", !.status = "not_found"]
    ELSE IF ~re_compiles(preferred_subject)
    THEN [call EXCEPT !.outcome = "raise"]
    ELSE
      LET df == labels(COURSE_DATA)
          combined_mask ==
              IF lower(preferred_faculty) # all
              THEN mask_score(jamb_score) \cap mask_subject(preferred_subject)
                       \cap mask_faculty(preferred_faculty)
              ELSE mask_score(jamb_score) \cap mask_subject(preferred_subject)
          results_df == select(df, combined_mask)
          alternative_df == sort_values(select(df, mask_score(jamb_score)))
          after == catalog_after_filter(combined_mask)
      IN  IF empty(results_df)
          THEN IF ~empty(alternative_df)
               THEN [call EXCEPT !.outcome = "return", !.courses = alternative_df,
                                 !.status = "alternative", !.catalog = after]
               ELSE [call EXCEPT !.outcome = "return", !.status = "not_found",
                                 !.catalog = after]
          ELSE [call EXCEPT !.outcome = "return", !.courses = sort_values(results_df),
                            !.status = "found", !.catalog = after]

-----------------------------------------------------------------------------
(* The requests *)

(* The profiles recommend_courses is called with *)
Scores == {240, 260, 300}
Subjects == {<<>>, <<"b">>, <<".">>, <<"(">>}
ProfileFaculties == {<<"A", "l", "l">>, <<"s", "c", "i">>, <<"L", "a", "w">>}

(* The forms posted to '/' and '/download' *)
NonNumericText == <<"2", "x">>

ValidForms ==
    [jamb : {<<"2", "6", "0">>}, subject : {<<"b">>, <<"(">>},
     faculty : {<<"A", "l", "l">>, <<"s", "c", "i">>}]

BaseForm == [jamb |-> <<"2", "6", "0">>, subject |-> <<"b">>, faculty |-> <<"A", "l", "l">>]

InvalidForms ==
    {[BaseForm EXCEPT !.jamb = NonNumericText], [BaseForm EXCEPT !.jamb = Absent],
     [BaseForm EXCEPT !.subject = Absent], [BaseForm EXCEPT !.faculty = Absent]}

Forms == ValidForms \cup InvalidForms

NoForm == [jamb |-> Absent, subject |-> Absent, faculty |-> Absent]

NoMessage == [type |-> "NoneType", text |-> <<>>]

Messages ==
    {NoMessage, [type |-> "str", text |-> <<>>], [type |-> "str", text |-> <<"h", "i">>],
     [type |-> "int", text |-> <<"6">>]}

ChatBodies ==
    {[json |-> "invalid", message |-> NoMessage], [json |-> "array", message |-> NoMessage]}
        \cup [json : {"object"}, message : Messages]

NoBody == [json |-> "none", message |-> NoMessage]

(* What model.generate_content does when it is called *)
AiOutcomes == {"text", "empty", "error"}

(* jamb = int(request.form['jamb']); subject = request.form['subject'];   *)
(* faculty = request.form['faculty']: the exception raised, or "ok"       *)
read_form_without_faculty(form) ==
    IF form.jamb = Absent THEN "BadRequestKeyError"
    ELSE IF ~IsNumeric(form.jamb) THEN "ValueError"
    ELSE IF form.subject = Absent THEN "BadRequestKeyError"
    ELSE "ok"

read_form(form) ==
    IF form.jamb = Absent THEN "BadRequestKeyError"
    ELSE IF ~IsNumeric(form.jamb) THEN "ValueError"
    ELSE IF form.subject = Absent THEN "BadRequestKeyError"
    ELSE IF form.faculty = Absent THEN "BadRequestKeyError"
    ELSE "ok"

(* df_results.to_dict(orient='records') *)
to_dict(rows) == [i \in 1..Len(rows) |-> COURSE_DATA[rows[i]]]

NoResponse ==
    [code |-> 0, view |-> "none", results_is_none |-> TRUE, results |-> <<>>, status |-> "none",
     faculties |-> {}, download_name |-> 0, reply |-> "none"]


(* sorted(COURSE_DATA['faculty'].unique()) if not COURSE_DATA.empty else [] *)
faculties_of(df) == {df[i].faculty : i \in 1..Len(df)}

(* index(): what '/' does with a request.  The result carries the         *)
(* invocation of recommend_courses (rc) and the response.                 *)
index(method, form) ==
    LET page == [NoResponse EXCEPT !.code = 200, !.view = "index.html",
                                   !.faculties = faculties_of(COURSE_DATA),
                                   !.status = "pending"]
        failed == [page EXCEPT !.results_is_none = FALSE, !.results = <<>>,
                               !.status = "not_found"]
    IN  IF method # "POST" THEN [rc |-> NoCall, response |-> page]
        ELSE IF read_form(form) # "ok" THEN [rc |-> NoCall, response |-> failed]
        ELSE LET call == recommend_courses(int(form.jamb), form.subject, form.faculty)
             IN  IF call.outcome = "raise" THEN [rc |-> call, response |-> failed]
                 ELSE [rc |-> call,
                       response |-> [page EXCEPT !.results_is_none = FALSE,
                                                 !.results = to_dict(call.courses),
                                                 !.status = call.status]]

(* download(): what '/download' does; pdf_ok tells whether              *)
(* generate_pdf_slip returned the bytes of the slip or raised.          *)
download(form, pdf_ok) ==
    LET error == [NoResponse EXCEPT !.code = 500, !.view = "text",
                                    !.reply = "Error generating PDF. Please try again or contact support."]
    IN  IF read_form(form) # "ok" THEN [rc |-> NoCall, response |-> error]
        ELSE LET call == recommend_courses(int(form.jamb), form.subject, form.faculty)
             IN  IF call.outcome = "raise" \/ ~pdf_ok THEN [rc |-> call, response |-> error]
                 ELSE [rc |-> call,
                       response |-> [NoResponse EXCEPT !.code = 200, !.view = "application/pdf",
                                                       !.results_is_none = FALSE,
                                                       !.results = to_dict(call.courses),
                                                       !.download_name = int(form.jamb)]]

NotAvailableReply == "Sorry, the AI model is not available. This is a server issue. Please try again later."
EmptyResponseReply == "I received an empty response from the AI. Please try rephrasing or ask a different question."
TroubleReply == "I'm having trouble connecting to my brain right now. Please try again in a moment. (Details logged on server)"
SaySomethingReply == "Please say something!"
InternalErrorReply == "Sorry, the server ran into an internal error while processing your chat."
AiText == "response.text"

(* get_gemini_response(user_message) when generate_content would end as  *)
(* ai: the reply it returns or that it raised, and the calls it made.    *)
(* user_message[:50] raises a TypeError for a message that is no string. *)
get_gemini_response_retrying(user_message, ai) ==
    IF model = "None" THEN [raised |-> FALSE, reply |-> NotAvailableReply, calls |-> 0]
    ELSE IF ai = "text" /\ user_message.type = "str"
    THEN [raised |-> FALSE, reply |-> AiText, calls |-> 1]
    ELSE IF ai = "empty"
    THEN [raised |-> FALSE, reply |-> EmptyResponseReply, calls |-> 2]
    ELSE IF user_message.type = "str"
    THEN [raised |-> FALSE, reply |-> TroubleReply, calls |-> 2]
    ELSE [raised |-> TRUE, reply |-> "none", calls |-> 1]

get_gemini_response_propagating(user_message, ai) ==
    IF model = "None" THEN [raised |-> FALSE, reply |-> NotAvailableReply, calls |-> 0]
    ELSE IF ai = "text" /\ user_message.type = "str"
    THEN [raised |-> FALSE, reply |-> AiText, calls |-> 1]
    ELSE IF ai = "empty"
    THEN [raised |-> FALSE, reply |-> EmptyResponseReply, calls |-> 1]
    ELSE [raised |-> TRUE, reply |-> "none", calls |-> 1]

get_gemini_response(user_message, ai) ==
    IF model = "None" THEN [raised |-> FALSE, reply |-> NotAvailableReply, calls |-> 0]
    ELSE IF ai = "text" /\ user_message.type = "str"
    THEN [raised |-> FALSE, reply |-> AiText, calls |-> 1]
    ELSE IF ai = "empty"
    THEN [raised |-> FALSE, reply |-> EmptyResponseReply, calls |-> 1]
    ELSE IF user_message.type = "str"
    THEN [raised |-> FALSE, reply |-> TroubleReply, calls |-> 1]
    ELSE [raised |-> TRUE, reply |-> "none", calls |-> 1]

(* `not user_message` *)
falsy(user_message) ==
    user_message.type = "NoneType" \/ (user_message.type = "str" /\ Len(user_message.text) = 0)

(* chat(): what '/chat' does with a request body *)
chat(body, ai) ==
    LET json(reply, code) == [NoResponse EXCEPT !.code = code, !.view = "json", !.reply = reply]
    IN  IF body.json # "object" THEN [calls |-> 0, response |-> json(InternalErrorReply, 500)]
        ELSE IF falsy(body.message) THEN [calls |-> 0, response |-> json(SaySomethingReply, 200)]
        ELSE LET got == get_gemini_response(body.message, ai)
             IN  IF got.raised \/ body.message.type # "str"
                 THEN [calls |-> got.calls, response |-> json(InternalErrorReply, 500)]
                 ELSE [calls |-> got.calls, response |-> json(got.reply, 200)]

-----------------------------------------------------------------------------
(* The process *)

Init ==
    /\ COURSE_DATA \in Catalogs
    /\ model \in {"loaded", "None"}
    /\ tieRank \in TieOrders
    /\ request = [route |-> "none", method |-> "none", form |-> NoForm, body |-> NoBody,
                  pdf_ok |-> TRUE, ai |-> "none"]
    /\ rc = NoCall
    /\ response = NoResponse
    /\ aiCalls = 0

Index(method, form) ==
    LET r == index(method, form)
    IN  /\ request' = [route |-> "/", method |-> method, form |-> form, body |-> NoBody,
                       pdf_ok |-> TRUE, ai |-> "none"]
        /\ rc' = r.rc
        /\ response' = r.response
        /\ COURSE_DATA' = IF r.rc.called THEN r.rc.catalog ELSE COURSE_DATA
        /\ aiCalls' = 0
        /\ UNCHANGED <<model, tieRank>>

Download(form, pdf_ok) ==
    LET r == download(form, pdf_ok)
    IN  /\ request' = [route |-> "/download", method |-> "POST", form |-> form, body |-> NoBody,
                       pdf_ok |-> pdf_ok, ai |-> "none"]
        /\ rc' = r.rc
        /\ response' = r.response
        /\ COURSE_DATA' = IF r.rc.called THEN r.rc.catalog ELSE COURSE_DATA
        /\ aiCalls' = 0
        /\ UNCHANGED <<model, tieRank>>

Chat(body, ai) ==
    LET r == chat(body, ai)
    IN  /\ request' = [route |-> "/chat", method |-> "POST", form |-> NoForm, body |-> body,
                       pdf_ok |-> TRUE, ai |-> ai]
        /\ rc' = NoCall
        /\ response' = r.response
        /\ aiCalls' = r.calls
        /\ UNCHANGED <<COURSE_DATA, model, tieRank>>

Next ==
    \/ \E form \in Forms : Index("POST", form)
    \/ Index("GET", NoForm)
    \/ \E form \in Forms, pdf_ok \in BOOLEAN : Download(form, pdf_ok)
    \/ \E body \in ChatBodies, ai \in AiOutcomes : Chat(body, ai)

Spec == Init /\ [][Next]_vars


(* recommend_courses called on its own, with any profile *)
Recommend(jamb_score, preferred_subject, preferred_faculty) ==
    LET call == recommend_courses(jamb_score, preferred_subject, preferred_faculty)
    IN  /\ rc' = call
        /\ COURSE_DATA' = call.catalog
        /\ UNCHANGED <<model, tieRank, request, response, aiCalls>>

MatchInit ==
    /\ COURSE_DATA \in Catalogs
    /\ model = "None"
    /\ tieRank \in TieOrders
    /\ request = [route |-> "none", method |-> "none", form |-> NoForm, body |-> NoBody,
                  pdf_ok |-> TRUE, ai |-> "none"]
    /\ rc = NoCall
    /\ response = NoResponse
    /\ aiCalls = 0

MatchNext ==
    \E jamb_score \in Scores, preferred_subject \in Subjects,
       preferred_faculty \in ProfileFaculties :
        Recommend(jamb_score, preferred_subject, preferred_faculty)

MatchSpec == MatchInit /\ [][MatchNext]_vars


-----------------------------------------------------------------------------
(* What the specification says of recommend_courses, in its own terms *)

(* text contains sub as a literal, case-insensitive substring *)
LiteralContains(text, sub) ==
    \E start \in 0..(Len(text) - Len(sub)) :
        \A j \in 1..Len(sub) : LowerChar(text[start + j]) = LowerChar(sub[j])

(* The records the last call's score admits *)
ScoreOnlySet == {i \in 1..Len(COURSE_DATA) : COURSE_DATA[i].min_jamb <= rc.jamb_score}

(* The records the last call's subject selects, read as a literal *)
LiteralSubjectSet ==
    {i \in 1..Len(COURSE_DATA) :
        LiteralContains(COURSE_DATA[i].required_subjects, rc.preferred_subject)}

FacultySet ==
    {i \in 1..Len(COURSE_DATA) :
        \/ lower(rc.preferred_faculty) = all
        \/ lower(COURSE_DATA[i].faculty) = lower(rc.preferred_faculty)}

ExactIntersectionSet == ScoreOnlySet \cap LiteralSubjectSet \cap FacultySet

Descending(rows) ==
    \A i, j \in 1..Len(rows) :
        i < j => COURSE_DATA[rows[i]].min_jamb >= COURSE_DATA[rows[j]].min_jamb

ArrangementOf(rows, S) == RowSet(rows) = S /\ Len(rows) = Cardinality(S)

Returned == rc.called /\ rc.outcome = "return"

(* C1: whenever the exact-intersection set (score, literal subject,       *)
(* faculty unless "all") is non-empty, recommend_courses returns 'found'  *)
(* with exactly that set, ordered by min_jamb descending.                 *)
C1_FoundExactIntersection ==
    (rc.called /\ ExactIntersectionSet # {}) =>
        /\ rc.outcome = "return"
        /\ rc.status = "found"
        /\ ArrangementOf(rc.courses, ExactIntersectionSet)
        /\ Descending(rc.courses)

(* C2: whenever the exact-intersection set is empty and some record has   *)
(* min_jamb <= score, recommend_courses returns 'alternative' with all    *)
(* the records the score admits, ordered by min_jamb descending.          *)
C2_AlternativeScoreOnly ==
    (rc.called /\ ExactIntersectionSet = {} /\ ScoreOnlySet # {}) =>
        /\ rc.outcome = "return"
        /\ rc.status = "alternative"
        /\ ArrangementOf(rc.courses, ScoreOnlySet)
        /\ Descending(rc.courses)

(* C3: every call returns one of the three statuses; the courses are      *)
(* empty exactly when the status is 'not_found', which is exactly when no *)
(* record has min_jamb <= score.                                          *)
C3_OneStatus ==
    rc.called =>
        /\ rc.outcome = "return"
        /\ rc.status \in {"found", "alternative", "not_found"}
        /\ (rc.courses = <<>>) <=> (rc.status = "not_found")
        /\ (rc.status = "not_found") <=> (ScoreOnlySet = {})

C5_LiteralSubstring ==
    (rc.called /\ ~empty(COURSE_DATA)) =>
        /\ re_compiles(rc.preferred_subject)
        /\ mask_subject(rc.preferred_subject) = LiteralSubjectSet

(* C6: recommend_courses never raises: every call returns a result. *)
C6_NeverRaises == rc.called => rc.outcome = "return"

-----------------------------------------------------------------------------
(* What the specification says of the routes *)

PostedProfile == request.route \in {"/", "/download"} /\ request.method = "POST"

InvalidInput ==
    \/ request.form.jamb = Absent
    \/ ~IsNumeric(request.form.jamb)
    \/ request.form.subject = Absent
    \/ request.form.faculty = Absent

PdfErrorText == "Error generating PDF. Please try again or contact support."

(* C7 as stated: on '/' POST and on '/download', a non-numeric score or a *)
(* missing field keeps recommend_courses from being invoked and the       *)
(* request degrades to an empty result set with status 'not_found'.       *)
C7_InvalidInputDegrades ==
    (PostedProfile /\ InvalidInput) =>
        /\ ~rc.called
        /\ ~response.results_is_none
        /\ response.results = <<>>
        /\ response.status = "not_found"

(* C7 as amended: on both routes a non-numeric score or a missing field   *)
(* keeps recommend_courses from being invoked; '/' then renders an empty  *)
(* result set with status 'not_found', while '/download' answers with the *)
(* fixed PDF error text and HTTP status 500.                              *)
C7_InvalidInputRejected ==
    (PostedProfile /\ InvalidInput) =>
        /\ ~rc.called
        /\ request.route = "/" =>
              /\ response.code = 200
              /\ ~response.results_is_none
              /\ response.results = <<>>
              /\ response.status = "not_found"
        /\ request.route = "/download" =>
              /\ response.code = 500
              /\ response.reply = PdfErrorText
              /\ response.results_is_none

(* A '/download' request whose score is not numeric, answered with 500 *)
C7_DownloadRejected ==
    /\ request.route = "/download"
    /\ request.form.jamb # Absent
    /\ ~IsNumeric(request.form.jamb)
    /\ response.code = 500

(* C8 as stated: whatever goes wrong while '/', '/download' or '/chat'    *)
(* handles a request, the caller receives an ordinary, non-error response.*)
C8_NeverAnErrorResponse == request.route # "none" => response.code = 200

ChatHandlerError == request.body.json # "object" \/ request.body.message.type = "int"

(* C8 as amended: '/' absorbs invalid input and a failure of the matching *)
(* into status 'not_found' in a 200 response, and '/chat' absorbs a       *)
(* failed or empty AI answer into a fixed fallback reply in a 200         *)
(* response; '/download' answers every error (invalid input, failure of   *)
(* the matching or of the PDF generation) with a fixed text and status    *)
(* 500, and '/chat' answers every other error of its handler with a fixed *)
(* reply and status 500.                                                  *)
C8_ErrorsAbsorbedOrFixed500 ==
    /\ request.route = "/" =>
          /\ response.code = 200
          /\ (request.method = "POST" /\ (InvalidInput \/ rc.outcome = "raise")) =>
                (response.status = "not_found" /\ response.results = <<>>)
    /\ request.route = "/download" =>
          /\ (response.code = 500) <=> (InvalidInput \/ rc.outcome = "raise" \/ ~request.pdf_ok)
          /\ (response.code # 500) => (response.code = 200 /\ response.view = "application/pdf")
          /\ (response.code = 500) => (response.reply = PdfErrorText)
    /\ request.route = "/chat" =>
          /\ (response.code = 500) <=> ChatHandlerError
          /\ (response.code # 500) => (response.code = 200)
          /\ (response.code = 500) => (response.reply = InternalErrorReply)
          /\ (~ChatHandlerError /\ aiCalls > 0 /\ request.ai \in {"empty", "error"}) =>
                response.reply \in {EmptyResponseReply, TroubleReply}

(* A '/chat' request whose AI call failed, answered 200 with the apology *)
C8_AiFailureAbsorbed ==
    /\ request.route = "/chat"
    /\ request.ai = "error"
    /\ aiCalls = 1
    /\ response.code = 200
    /\ response.reply = TroubleReply

(* C9: a chat request calls the AI service at most once: not at all for   *)
(* an empty or missing message, which gets the fixed prompt-for-input     *)
(* reply; a failed or empty AI answer is not retried and a fixed apology  *)
(* is sent in its place.                                                  *)
C9_AtMostOneAiCall ==
    request.route = "/chat" =>
        /\ aiCalls <= 1
        /\ (request.body.json = "object"
              /\ (request.body.message.type = "NoneType" \/ request.body.message.text = <<>>)) =>
                (aiCalls = 0 /\ response.reply = SaySomethingReply /\ response.code = 200)
        /\ (aiCalls > 0 /\ request.ai \in {"empty", "error"}) =>
                response.reply \in {EmptyResponseReply, TroubleReply, InternalErrorReply}

(* A '/chat' request whose single AI call came back empty *)
C9_EmptyAnswerNotRetried ==
    /\ request.route = "/chat"
    /\ request.ai = "empty"
    /\ aiCalls = 1
    /\ response.reply = EmptyResponseReply

SameProfile(a, b) ==
    /\ a.jamb_score = b.jamb_score
    /\ a.preferred_subject = b.preferred_subject
    /\ a.preferred_faculty = b.preferred_faculty

====
